---- MODULE Spec2Model ----
(***************************************************************************)
(* CloudySky data model (app/robot-models.py, app/models.py) and the three *)
(* demo views (app/views.py, app/urls.py).                                  *)
(*                                                                         *)
(* The relational store is modelled table by table: a table is a set of    *)
(* rows, a row is a record holding its primary key and the columns the     *)
(* constraints and the deletion rules read.  Foreign keys, the unique      *)
(* constraint of Like, NOT NULL columns, on_delete rules and the cascade   *)
(* through GenericRelation are the database's and the ORM's behaviour for  *)
(* the declarations in the source.                                         *)
(***************************************************************************)
EXTENDS Integers, FiniteSets, Sequences, TLC

\* ------------------------------------------------------------------ bounds
MaxUsers    == 2      \* primary keys handed out per table
MaxReasons  == 1
MaxPosts    == 2
MaxComments == 1
MaxMedia    == 1
MaxLikes    == 2
MaxFileSize == 1      \* largest byte length of an attached file
MaxCalls    == 6      \* data-access calls in one run
NumRequests == 2      \* concurrent "like" requests
MaxParamLen == 2      \* longest query parameter value

\* ------------------------------------------------------------- vocabulary
\* Python None / SQL NULL.
None == -1

\* FieldFile with an empty name: no file attached (falsy in Media.save).
NoFile == -2

\* Rows of django_content_type the generic foreign keys may point to.
ContentTypes == {"user", "post", "comment"}

\* The models that declare GenericRelations to Media and Like.
Likeable == {"post", "comment"}


FileSizes   == 0..MaxFileSize
FileStates  == {NoFile} \cup FileSizes
PresetSizes == {None} \cup FileSizes

VARIABLES
    users,      \* User rows: set of primary keys
    reasons,    \* BlockReason rows: set of primary keys
    posts,      \* Post rows
    comments,   \* Comment rows
    media,      \* Media rows
    likes,      \* Like rows
    seq,        \* per table, the last primary key handed out
    last,       \* the last data-access call and its outcome
    calls,      \* number of data-access calls made so far
    pc,         \* concurrent like requests: position and arguments
    view,       \* the view that handled the last HTTP request
    request,    \* that request
    response    \* what the view returned

store == <<users, reasons, posts, comments, media, likes, seq>>
http  == <<view, request, response>>
vars  == <<users, reasons, posts, comments, media, likes, seq, last, calls,
           pc, view, request, response>>

Ids(rows) == {r.id : r \in rows}

Outcome(op, key, res) == [op |-> op, key |-> key, res |-> res]

\* A failed INSERT/UPDATE: the statement is rolled back, nothing is stored.
Rejected(op, key) ==
    /\ last' = Outcome(op, key, "IntegrityError")
    /\ UNCHANGED store

\* ------------------------------------------------------------ row builders
PostRow(id, author) ==
    [id |-> id, author |-> author, is_hidden |-> FALSE,
     hidden_reason |-> None, hidden_by |-> None]

CommentRow(id, post, author) ==
    [id |-> id, post |-> post, author |-> author, is_hidden |-> FALSE,
     hidden_reason |-> None, hidden_by |-> None]

MediaRow(id, ct, oid, uct, uoid, size, file) ==
    [id |-> id, content_type |-> ct, object_id |-> oid,
     uploader_content_type |-> uct, uploader_object_id |-> uoid,
     size_bytes |-> size, file |-> file]

LikeRow(id, user, ct, oid) ==
    [id |-> id, user |-> user, content_type |-> ct, object_id |-> oid]

\* ----------------------------------------------------- deletion collector
\* Rows of a table with a generic foreign key (content_type, object_id)
\* that a GenericRelation declared on model `ct` reaches from objects `ids`.
GenericRelatedNone(rows, ct, ids) == {}

GenericRelated(rows, ct, ids) ==
    {r \in rows : r.content_type = ct /\ r.object_id \in ids}

\* User.uploads: Media rows reached through the uploader generic key.
UserUploadsNone(U) == {}

UserUploads(U) ==
    {m \in media : m.uploader_content_type = "user"
                   /\ m.uploader_object_id \in U}

\* Post.author, on_delete=CASCADE.
AuthoredPosts(U) == {p \in posts : p.author \in U}

\* Comment.author, on_delete=CASCADE.
AuthoredComments(U) == {c \in comments : c.author \in U}

\* Comment.post, on_delete=CASCADE.
PostComments(P) == {c \in comments : c.post \in P}

\* Like.user, on_delete=CASCADE.
UserLikes(U) == {l \in likes : l.user \in U}

\* Everything deleting users U, posts P and comments C takes with it.
DoomedPosts(U, P) == {p \in posts : p.id \in P} \cup AuthoredPosts(U)

DoomedComments(U, P, C) ==
    {c \in comments : c.id \in C}
        \cup AuthoredComments(U)
        \cup PostComments(Ids(DoomedPosts(U, P)))

DoomedMedia(U, P, C) ==
    GenericRelated(media, "post", Ids(DoomedPosts(U, P)))
        \cup GenericRelated(media, "comment", Ids(DoomedComments(U, P, C)))
        \cup UserUploads(U)

DoomedLikes(U, P, C) ==
    GenericRelated(likes, "post", Ids(DoomedPosts(U, P)))
        \cup GenericRelated(likes, "comment", Ids(DoomedComments(U, P, C)))
        \cup UserLikes(U)

\* hidden_by, on_delete=SET_NULL.
ClearHiddenBy(rows, U) ==
    {IF r.hidden_by \in U THEN [r EXCEPT !.hidden_by = None] ELSE r
        : r \in rows}

\* hidden_reason, on_delete=SET_NULL.
ClearHiddenReasonAndFlag(rows, R) ==
    {IF r.hidden_reason \in R
        THEN [r EXCEPT !.hidden_reason = None, !.is_hidden = FALSE]
        ELSE r
        : r \in rows}

ClearHiddenReason(rows, R) ==
    {IF r.hidden_reason \in R THEN [r EXCEPT !.hidden_reason = None] ELSE r
        : r \in rows}

\* What Model.delete() returns: the number of rows deleted, per model.
Deleted(U, P, C) ==
    [post |-> Cardinality(DoomedPosts(U, P)),
     comment |-> Cardinality(DoomedComments(U, P, C)),
     media |-> Cardinality(DoomedMedia(U, P, C)),
     like |-> Cardinality(DoomedLikes(U, P, C))]

\* Model.delete(): collect, null out SET_NULL references, delete.
Collect(U, P, C) ==
    /\ users'    = users \ U
    /\ posts'    = ClearHiddenBy(posts \ DoomedPosts(U, P), U)
    /\ comments' = ClearHiddenBy(comments \ DoomedComments(U, P, C), U)
    /\ media'    = media \ DoomedMedia(U, P, C)
    /\ likes'    = likes \ DoomedLikes(U, P, C)
    /\ UNCHANGED <<reasons, seq>>

\* --------------------------------------------------------------- creation
CreateUser ==
    /\ seq.user < MaxUsers
    /\ users' = users \cup {seq.user + 1}
    /\ seq' = [seq EXCEPT !.user = @ + 1]
    /\ last' = Outcome("CreateUser", <<>>, "ok")
    /\ UNCHANGED <<reasons, posts, comments, media, likes>>

CreateBlockReason ==
    /\ seq.reason < MaxReasons
    /\ reasons' = reasons \cup {seq.reason + 1}
    /\ seq' = [seq EXCEPT !.reason = @ + 1]
    /\ last' = Outcome("CreateBlockReason", <<>>, "ok")
    /\ UNCHANGED <<users, posts, comments, media, likes>>

CreatePost(author) ==
    IF author \notin users
    THEN Rejected("CreatePost", <<>>)
    ELSE /\ seq.post < MaxPosts
         /\ posts' = posts \cup {PostRow(seq.post + 1, author)}
         /\ seq' = [seq EXCEPT !.post = @ + 1]
         /\ last' = Outcome("CreatePost", <<>>, "ok")
         /\ UNCHANGED <<users, reasons, comments, media, likes>>

CreateComment(post, author) ==
    IF author \notin users \/ post \notin Ids(posts)
    THEN Rejected("CreateComment", <<>>)
    ELSE /\ seq.comment < MaxComments
         /\ comments' = comments \cup {CommentRow(seq.comment + 1, post, author)}
         /\ seq' = [seq EXCEPT !.comment = @ + 1]
         /\ last' = Outcome("CreateComment", <<>>, "ok")
         /\ UNCHANGED <<users, reasons, posts, media, likes>>

\* unique_user_like: UniqueConstraint(user, content_type, object_id).
LikeExistsNever(user, ct, oid) == FALSE

LikeExists(user, ct, oid) ==
    \E l \in likes :
        l.user = user /\ l.content_type = ct /\ l.object_id = oid

\* Like.objects.create(user=..., content_type=..., object_id=...): one
\* INSERT, checked by the database against the user foreign key and the
\* unique constraint.  The generic key itself is not a foreign key.
CreateLike(user, ct, oid) ==
    IF user \notin users \/ LikeExists(user, ct, oid)
    THEN Rejected("CreateLike", <<user, ct, oid>>)
    ELSE /\ seq.like < MaxLikes
         /\ likes' = likes \cup {LikeRow(seq.like + 1, user, ct, oid)}
         /\ seq' = [seq EXCEPT !.like = @ + 1]
         /\ last' = Outcome("CreateLike", <<user, ct, oid>>, "ok")
         /\ UNCHANGED <<users, reasons, posts, comments, media>>

\* Media.save() of a new instance.  `preset` is the instance's size_bytes
\* before the call, `file` the attached file's byte length (NoFile: none).
CapturedSize(size_bytes, file) ==
    IF (size_bytes = None \/ size_bytes = 0) /\ file # NoFile
    THEN file
    ELSE size_bytes

CreateMedia(ct, oid, uct, uoid, preset, file) ==
    LET size == CapturedSize(preset, file) IN
    IF size = None
    THEN Rejected("CreateMedia", <<preset, file>>)   \* size_bytes NOT NULL
    ELSE /\ seq.media < MaxMedia
         /\ media' = media \cup
                {MediaRow(seq.media + 1, ct, oid, uct, uoid, size, file)}
         /\ seq' = [seq EXCEPT !.media = @ + 1]
         /\ last' = Outcome("CreateMedia", <<preset, file>>, "ok")
         /\ UNCHANGED <<users, reasons, posts, comments, likes>>

\* Media.save() of a stored row whose file now has byte length `file`.
SaveMedia(id, file) ==
    \E m \in media :
        /\ m.id = id
        /\ media' = (media \ {m}) \cup
              {[m EXCEPT !.size_bytes = CapturedSize(m.size_bytes, file),
                         !.file = file]}
        /\ last' = Outcome("SaveMedia", <<>>, "ok")
        /\ UNCHANGED <<users, reasons, posts, comments, likes, seq>>

\* --------------------------------------------------------------- deletion
DeleteUser(u) ==
    /\ u \in users
    /\ Collect({u}, {}, {})
    /\ last' = Outcome("DeleteUser", Deleted({u}, {}, {}), "ok")

DeletePost(p) ==
    /\ p \in Ids(posts)
    /\ Collect({}, {p}, {})
    /\ last' = Outcome("DeletePost", Deleted({}, {p}, {}), "ok")

DeleteComment(c) ==
    /\ c \in Ids(comments)
    /\ Collect({}, {}, {c})
    /\ last' = Outcome("DeleteComment", Deleted({}, {}, {c}), "ok")

DeleteMedia(id) ==
    /\ id \in Ids(media)
    /\ media' = {m \in media : m.id # id}
    /\ last' = Outcome("DeleteMedia", <<>>, "ok")
    /\ UNCHANGED <<users, reasons, posts, comments, likes, seq>>

DeleteLike(id) ==
    /\ id \in Ids(likes)
    /\ likes' = {l \in likes : l.id # id}
    /\ last' = Outcome("DeleteLike", <<>>, "ok")
    /\ UNCHANGED <<users, reasons, posts, comments, media, seq>>

DeleteBlockReason(r) ==
    /\ r \in reasons
    /\ reasons' = reasons \ {r}
    /\ posts' = ClearHiddenReason(posts, {r})
    /\ comments' = ClearHiddenReason(comments, {r})
    /\ last' = Outcome("DeleteBlockReason",
                       [post |-> Cardinality({p \in posts : p.hidden_reason = r}),
                        comment |-> Cardinality({c \in comments : c.hidden_reason = r})],
                       "ok")
    /\ UNCHANGED <<users, media, likes, seq>>

\* ------------------------------------------------------------- moderation
\* Saving a post / comment with its hide fields assigned.
HideFields(row, flag, reason, by) ==
    [row EXCEPT !.is_hidden = flag, !.hidden_reason = reason, !.hidden_by = by]

SetPostHidden(p, flag, reason, by) ==
    /\ p \in Ids(posts)
    /\ IF (reason # None /\ reason \notin reasons) \/ (by # None /\ by \notin users)
       THEN Rejected("SetPostHidden", <<>>)
       ELSE /\ posts' = {IF r.id = p THEN HideFields(r, flag, reason, by) ELSE r
                            : r \in posts}
            /\ last' = Outcome("SetPostHidden", <<>>, "ok")
            /\ UNCHANGED <<users, reasons, comments, media, likes, seq>>

SetCommentHidden(c, flag, reason, by) ==
    /\ c \in Ids(comments)
    /\ IF (reason # None /\ reason \notin reasons) \/ (by # None /\ by \notin users)
       THEN Rejected("SetCommentHidden", <<>>)
       ELSE /\ comments' = {IF r.id = c THEN HideFields(r, flag, reason, by) ELSE r
                               : r \in comments}
            /\ last' = Outcome("SetCommentHidden", <<>>, "ok")
            /\ UNCHANGED <<users, reasons, posts, media, likes, seq>>

\* ------------------------------------------------------- concurrent likes
\* A request that likes something: it is handed its arguments, then issues
\* the INSERT.  The database runs each INSERT atomically.
Requests == 1..NumRequests

Idle == [at |-> "idle", user |-> None, content_type |-> "", object_id |-> None,
         result |-> ""]

BeginLike(r, user, ct, oid) ==
    /\ pc[r].at = "idle"
    /\ pc' = [pc EXCEPT ![r] = [at |-> "insert", user |-> user,
                                content_type |-> ct, object_id |-> oid,
                                result |-> ""]]
    /\ UNCHANGED <<store, last, calls, http>>

InsertLikeUnchecked(r) ==
    /\ pc[r].at = "insert"
    /\ seq.like < MaxLikes
    /\ likes' = likes \cup {LikeRow(seq.like + 1, pc[r].user,
                                    pc[r].content_type, pc[r].object_id)}
    /\ seq' = [seq EXCEPT !.like = @ + 1]
    /\ last' = Outcome("CreateLike",
                       <<pc[r].user, pc[r].content_type, pc[r].object_id>>, "ok")
    /\ pc' = [pc EXCEPT ![r].at = "done", ![r].result = "ok"]
    /\ UNCHANGED <<users, reasons, posts, comments, media, calls, http>>

InsertLike(r) ==
    /\ pc[r].at = "insert"
    /\ CreateLike(pc[r].user, pc[r].content_type, pc[r].object_id)
    /\ pc' = [pc EXCEPT ![r].at = "done", ![r].result = last'.res]
    /\ UNCHANGED <<calls, http>>

\* ------------------------------------------------------------------ views
Methods == {"GET", "POST", "HEAD"}

\* Characters a query parameter is made of.
Chars == {"1", "2", "-", "x"}

Strings(n) == UNION {[1..k -> Chars] : k \in 0..n}

\* request.GET: a key is missing, or present with a string value.
Missing == [present |-> FALSE, value |-> <<>>]

QueryValues ==
    {Missing} \cup {[present |-> TRUE, value |-> s] : s \in Strings(MaxParamLen)}

NoRequest == [method |-> "", n1 |-> Missing, n2 |-> Missing,
              hour |-> 0, minute |-> 0]

\* HttpResponse(content): status 200 unless told otherwise.
StatusOk == 200

HttpResponse(body) == [kind |-> "HttpResponse", status |-> StatusOk, body |-> body]

\* A view that falls off its end returns None.
ReturnedNone == [kind |-> "None", status |-> 0, body |-> <<>>]

NoResponse == [kind |-> "", status |-> 0, body |-> <<>>]

DigitChars == <<"0", "1", "2", "3", "4", "5", "6", "7", "8", "9">>

IsDigit(c) == c \in {"1", "2"}

DigitValue(c) == IF c = "1" THEN 1 ELSE 2

RECURSIVE DigitsValue(_)
DigitsValue(s) ==
    IF s = <<>> THEN 0
    ELSE 10 * DigitsValue(SubSeq(s, 1, Len(s) - 1)) + DigitValue(s[Len(s)])

AllDigits(s) == Len(s) > 0 /\ \A i \in 1..Len(s) : IsDigit(s[i])

\* float(str): an optional sign, then digits; anything else is a ValueError.
ParseFloat(s) ==
    IF AllDigits(s) THEN [ok |-> TRUE, value |-> DigitsValue(s)]
    ELSE IF Len(s) > 1 /\ s[1] = "-" /\ AllDigits(Tail(s))
         THEN [ok |-> TRUE, value |-> 0 - DigitsValue(Tail(s))]
         ELSE [ok |-> FALSE, value |-> 0]

\* float(request.GET.get(key, 0)): the default 0 converts to 0.0.
FloatOfOrZero(q) ==
    IF q.present /\ ParseFloat(q.value).ok THEN ParseFloat(q.value)
    ELSE [ok |-> TRUE, value |-> 0]

FloatOf(q) ==
    IF q.present THEN ParseFloat(q.value) ELSE [ok |-> TRUE, value |-> 0]

RECURSIVE NatText(_)
NatText(n) ==
    IF n < 10 THEN <<DigitChars[n + 1]>>
    ELSE NatText(n \div 10) \o <<DigitChars[(n % 10) + 1]>>

\* str(x) of a float holding an integer value: "3.0", "-12.0".
FloatText(v) ==
    (IF v < 0 THEN <<"-">> \o NatText(0 - v) ELSE NatText(v)) \o <<".", "0">>

\* f"Error: {e}" for the ValueError float() raises on `s`.
ErrorPrefix == "Error: could not convert string to float: "

ErrorText(s) == <<ErrorPrefix>> \o s

\* strftime("%H:%M")
TwoDigits(n) == <<DigitChars[(n \div 10) + 1], DigitChars[(n % 10) + 1]>>

CdtOffsetHours == 5

HoursPerDay == 24

ClockText(hour, minute) ==
    TwoDigits((hour - CdtOffsetHours) % HoursPerDay) \o <<":">> \o TwoDigits(minute)

\* urlpatterns: path -> view name.
urlpatterns ==
    [dummypage |-> "dummypage", time |-> "current_time", sum |-> "add_numbers"]

\* A request arrives and is routed to its view.
Route(path, method, q1, q2, hour, minute) ==
    /\ view = ""
    /\ view' = urlpatterns[path]
    /\ request' = [method |-> method, n1 |-> q1, n2 |-> q2,
                   hour |-> hour, minute |-> minute]
    /\ response' = NoResponse
    /\ UNCHANGED <<store, last, calls, pc>>

\* The routed view runs and returns.
Returns(name, resp) ==
    /\ view = name
    /\ response = NoResponse
    /\ response' = resp
    /\ UNCHANGED <<view, request, store, last, calls, pc>>

dummypage ==
    Returns("dummypage",
            IF request.method = "GET"
            THEN HttpResponse(<<"No content here, sorry!">>)
            ELSE ReturnedNone)

current_time ==
    Returns("current_time", HttpResponse(ClockText(request.hour, request.minute)))

add_numbers ==
    LET n1 == FloatOf(request.n1)
        n2 == FloatOf(request.n2)
    IN Returns("add_numbers",
               IF ~n1.ok THEN HttpResponse(ErrorText(request.n1.value))
               ELSE IF ~n2.ok THEN HttpResponse(ErrorText(request.n2.value))
               ELSE HttpResponse(FloatText(n1.value + n2.value)))

\* The request is over; nothing of it is kept.
Finish ==
    /\ response # NoResponse
    /\ view' = ""
    /\ request' = NoRequest
    /\ response' = NoResponse
    /\ UNCHANGED <<store, last, calls, pc>>

\* ---------------------------------------------------------- specification
\* One more data-access call, while the run's budget lasts; a call leaves
\* the requests and views alone.
Call(op) ==
    /\ calls < MaxCalls
    /\ op
    /\ calls' = calls + 1
    /\ UNCHANGED <<pc, view, request, response>>

InitStore ==
    /\ users = {}
    /\ reasons = {}
    /\ posts = {}
    /\ comments = {}
    /\ media = {}
    /\ likes = {}
    /\ seq = [user |-> 0, reason |-> 0, post |-> 0, comment |-> 0,
              media |-> 0, like |-> 0]
    /\ last = Outcome("", <<>>, "")
    /\ calls = 0

InitRest ==
    /\ pc = [r \in Requests |-> Idle]
    /\ view = ""
    /\ request = NoRequest
    /\ response = NoResponse

Init == InitStore /\ InitRest

\* Identifiers a caller may name for a table: every primary key handed out
\* so far (whether its row still exists or not) and the next one, which no
\* row has yet.
Named(table) == 1..(seq[table] + 1)

\* Users, posts, comments, likes and attachments: creation and deletion.
Next ==
    \/ Call(CreateUser)
    \/ \E a \in Named("user") :
         Call(CreatePost(a))
    \/ \E p \in Named("post"), a \in Named("user") :
         Call(CreateComment(p, a))
    \/ \E u \in Named("user"), ct \in Likeable : \E o \in Named(ct) :
         Call(CreateLike(u, ct, o))
    \/ \E ct \in Likeable, uo \in Named("user") : \E o \in Named(ct) :
         Call(CreateMedia(ct, o, "user", uo, None, 1))
    \/ \E u \in users :
         Call(DeleteUser(u))
    \/ \E p \in Ids(posts) :
         Call(DeletePost(p))
    \/ \E c \in Ids(comments) :
         Call(DeleteComment(c))
    \/ \E m \in Ids(media) :
         Call(DeleteMedia(m))
    \/ \E l \in Ids(likes) :
         Call(DeleteLike(l))

Spec == Init /\ [][Next]_vars

\* Moderation: hiding posts and comments, and the lookup table of reasons.
NextModeration ==
    \/ Call(CreateUser)
    \/ Call(CreateBlockReason)
    \/ \E a \in Named("user") :
         Call(CreatePost(a))
    \/ \E p \in Named("post"), a \in Named("user") :
         Call(CreateComment(p, a))
    \/ \E p \in Ids(posts), flag \in BOOLEAN,
          r \in Named("reason") \cup {None}, by \in Named("user") \cup {None} :
         Call(SetPostHidden(p, flag, r, by))
    \/ \E c \in Ids(comments), flag \in BOOLEAN,
          r \in Named("reason") \cup {None}, by \in Named("user") \cup {None} :
         Call(SetCommentHidden(c, flag, r, by))
    \/ \E r \in reasons :
         Call(DeleteBlockReason(r))
    \/ \E u \in users :
         Call(DeleteUser(u))

SpecModeration == Init /\ [][NextModeration]_vars

\* Media uploads: first save, later saves, and the generic references.
NextMedia ==
    \/ Call(CreateUser)
    \/ \E a \in Named("user") :
         Call(CreatePost(a))
    \/ \E ct \in ContentTypes, uct \in {"user", "post"},
          sz \in PresetSizes, f \in FileStates :
         \E o \in Named(ct), uo \in Named(uct) :
            Call(CreateMedia(ct, o, uct, uo, sz, f))
    \/ \E m \in Ids(media), f \in FileStates :
         Call(SaveMedia(m, f))
    \/ \E m \in Ids(media) :
         Call(DeleteMedia(m))
    \/ \E p \in Ids(posts) :
         Call(DeletePost(p))
    \/ \E u \in users :
         Call(DeleteUser(u))

SpecMedia == Init /\ [][NextMedia]_vars

\* Two or more requests liking concurrently, on a store that holds users, a
\* post and a comment and no like yet.
InitRace ==
    /\ users = {1, 2}
    /\ reasons = {}
    /\ posts = {PostRow(1, 1), PostRow(2, 2)}
    /\ comments = {CommentRow(1, 1, 2)}
    /\ media = {}
    /\ likes = {}
    /\ seq = [user |-> 2, reason |-> 0, post |-> 2, comment |-> 1,
              media |-> 0, like |-> 0]
    /\ last = Outcome("", <<>>, "")
    /\ calls = 0
    /\ InitRest

NextRace ==
    \/ \E r \in Requests, u \in users, ct \in Likeable :
         \E o \in IF ct = "post" THEN Ids(posts) ELSE Ids(comments) :
            BeginLike(r, u, ct, o)
    \/ \E r \in Requests : InsertLike(r)

SpecRace == InitRace /\ [][NextRace]_vars

\* The HTTP surface: urlpatterns routes each path to its view.
Hours == 0..(HoursPerDay - 1)

Minutes == {0, 59}

\* The requests that may arrive while no request is being handled.
Arrives ==
    /\ view = ""
    /\ \/ \E m \in Methods : Route("dummypage", m, Missing, Missing, 0, 0)
       \/ \E m \in Methods, h \in Hours, mi \in Minutes :
            Route("time", m, Missing, Missing, h, mi)
       \/ \E m \in Methods, q1 \in QueryValues, q2 \in QueryValues :
            Route("sum", m, q1, q2, 0, 0)

NextViews ==
    \/ Arrives
    \/ dummypage
    \/ current_time
    \/ add_numbers
    \/ Finish

SpecViews == Init /\ [][NextViews]_vars

\* ================================================================ claims
\* The (user, target) pair a Like row stands for.
Pair(l) == <<l.user, l.content_type, l.object_id>>

\* --- C1 -----------------------------------------------------------------
LikesUnique == \A l1, l2 \in likes : Pair(l1) = Pair(l2) => l1 = l2

LikeCreation ==
    (last'.op = "CreateLike" /\ calls' # calls) =>
        IF last'.key[1] \in users /\ ~\E l \in likes : Pair(l) = last'.key
        THEN /\ last'.res = "ok"
             /\ likes \subseteq likes'
             /\ Cardinality(likes') = Cardinality(likes) + 1
             /\ \E l \in likes' \ likes : Pair(l) = last'.key
             /\ UNCHANGED <<users, reasons, posts, comments, media>>
        ELSE /\ last'.res = "IntegrityError"
             /\ UNCHANGED store

\* C1: the store never holds two Like rows for one (user, target); creating
\* a Like for an existing user and a target he has no Like for succeeds and
\* adds exactly that row; creating it again fails with a constraint
\* violation and leaves the existing row and the rest of the store as they
\* were.
C1_OneLikePerUserAndTarget == []LikesUnique /\ [][LikeCreation]_vars

\* A second Like for a pair was refused, and the first is still there.
C1_DuplicateRefused ==
    /\ last.op = "CreateLike"
    /\ last.res = "IntegrityError"
    /\ last.key[1] \in users
    /\ Cardinality({l \in likes : Pair(l) = last.key}) = 1

\* --- C2 -----------------------------------------------------------------
\* Media or Like rows whose generic key points at one of the given posts or
\* comments.
Targeting(rows, P, C) ==
    {r \in rows : \/ r.content_type = "post" /\ r.object_id \in P
                  \/ r.content_type = "comment" /\ r.object_id \in C}

\* Media or Like rows whose generic key points at no post or comment among
\* those given.
Dangling(rows, ps, cs) == rows \ Targeting(rows, Ids(ps), Ids(cs))

PostDeletion ==
    last'.op = "DeletePost" =>
        LET goneP == Ids(posts) \ Ids(posts')
            goneC == {c \in comments : c.post \in goneP}
        IN /\ Cardinality(goneP) = 1
           /\ posts' = {p \in posts : p.id \notin goneP}
           /\ comments' = comments \ goneC
           /\ media' = media \ Targeting(media, goneP, Ids(goneC))
           /\ likes' = likes \ Targeting(likes, goneP, Ids(goneC))
           /\ UNCHANGED <<users, reasons>>
           /\ \A c \in comments' : c.post \in Ids(posts')
           /\ Targeting(media', goneP, Ids(goneC)) = {}
           /\ Targeting(likes', goneP, Ids(goneC)) = {}
           /\ Dangling(media', posts', comments')
                 \subseteq Dangling(media, posts, comments)
           /\ Dangling(likes', posts', comments')
                 \subseteq Dangling(likes, posts, comments)

\* C2: deleting a post removes the post, its comments, and every Media and
\* Like row that targets the post or one of those comments; afterwards no
\* comment, Media or Like row refers to the post or to a comment deleted
\* with it (the delete leaves no row without its parent that had one
\* before), and every other row is as it was.
C2_PostDeleteCascades == [][PostDeletion]_vars

\* A post went together with a comment of its own and with a like or an
\* upload.
C2_PostWithCommentsDeleted ==
    /\ last.op = "DeletePost"
    /\ last.key.comment >= 1
    /\ last.key.like + last.key.media >= 1

\* --- C4 -----------------------------------------------------------------
UserDeletion ==
    last'.op = "DeleteUser" =>
        LET goneU == users \ users'
            goneP == {p \in posts : p.author \in goneU}
            goneC == {c \in comments : c.author \in goneU \/ c.post \in Ids(goneP)}
        IN /\ Cardinality(goneU) = 1
           /\ \A p \in posts' : p.author \notin goneU
           /\ \A c \in comments' : c.author \notin goneU
           /\ \A l \in likes' : l.user \notin goneU
           /\ \A m \in media' : ~(m.uploader_content_type = "user"
                                  /\ m.uploader_object_id \in goneU)
           /\ Ids(posts') = Ids(posts) \ Ids(goneP)
           /\ Ids(comments') = Ids(comments) \ Ids(goneC)
           /\ Targeting(media', Ids(goneP), Ids(goneC)) = {}
           /\ Targeting(likes', Ids(goneP), Ids(goneC)) = {}

WithoutReason(row, R) ==
    [row EXCEPT !.hidden_reason = IF @ \in R THEN None ELSE @]

ReasonDeletion ==
    last'.op = "DeleteBlockReason" =>
        LET goneR == reasons \ reasons'
        IN /\ last'.res = "ok"
           /\ Cardinality(goneR) = 1
           /\ posts' = {WithoutReason(p, goneR) : p \in posts}
           /\ comments' = {WithoutReason(c, goneR) : c \in comments}
           /\ \A p \in posts' : p.hidden_reason \notin goneR
           /\ \A c \in comments' : c.hidden_reason \notin goneR
           /\ UNCHANGED <<users, media, likes>>

\* C3: deleting a block reason succeeds even when posts or comments refer
\* to it; each of them is still there with hidden_reason null and with
\* is_hidden and every other field as before.
C3_ReasonDeleteKeepsHidden == [][ReasonDeletion]_vars

\* A reason that a hidden post referred to was deleted; the post is still
\* hidden.
C3_ReferencedReasonDeleted ==
    /\ last.op = "DeleteBlockReason"
    /\ last.key.post >= 1
    /\ \E p \in posts : p.is_hidden /\ p.hidden_reason = None
    /\ \A p \in posts : p.is_hidden

\* --- C8 -----------------------------------------------------------------
Done(r) == pc[r].at = "done"

Args(r) == <<pc[r].user, pc[r].content_type, pc[r].object_id>>

\* C8: of the concurrent requests that have created a Like for one (user,
\* target) pair, exactly one succeeded and the others failed, and the store
\* never holds two Like rows for the pair.
C8_OneConcurrentLikeWins ==
    /\ LikesUnique
    /\ \A r \in Requests :
         Done(r) =>
            /\ pc[r].result \in {"ok", "IntegrityError"}
            /\ Cardinality({q \in Requests :
                              Done(q) /\ Args(q) = Args(r) /\ pc[q].result = "ok"}) = 1
            /\ Cardinality({l \in likes : Pair(l) = Args(r)}) = 1

\* Two requests for the same pair ran; one got the row, the other failed.
C8_RaceDecided ==
    \E r1, r2 \in Requests :
        /\ r1 # r2
        /\ Done(r1) /\ Done(r2)
        /\ Args(r1) = Args(r2)
        /\ pc[r1].result = "ok"
        /\ pc[r2].result = "IntegrityError"

\* --- C9 -----------------------------------------------------------------
Parses(q) == ~q.present \/ ParseFloat(q.value).ok

Number(q) == IF q.present THEN ParseFloat(q.value).value ELSE 0

\* C9: add_numbers always answers with status 200; a missing parameter
\* counts as 0; when both values parse the body is the text of their sum,
\* and when a present parameter does not parse the body is "Error: ..."
\* (the value is not taken as 0).
C9_SumAnswers ==
    (view = "add_numbers" /\ response # NoResponse) =>
        /\ response.kind = "HttpResponse"
        /\ response.status = StatusOk
        /\ IF Parses(request.n1) /\ Parses(request.n2)
           THEN response.body = FloatText(Number(request.n1) + Number(request.n2))
           ELSE response.body[1] = ErrorPrefix

\* n1 is missing and n2 is not a number: the answer is the error text.
C9_MissingAndUnparsable ==
    /\ view = "add_numbers"
    /\ ~request.n1.present
    /\ request.n2 = [present |-> TRUE, value |-> <<"x">>]
    /\ response = HttpResponse(<<ErrorPrefix, "x">>)

\* --- C10 ----------------------------------------------------------------
\* C10: whatever view a request is routed to returns an HTTP response
\* object, for every method and every query.
C10_EveryViewResponds ==
    response # NoResponse => response.kind = "HttpResponse"

\* --- C5 -----------------------------------------------------------------
\* C5: a stored Media row keeps the size_bytes of its first save through
\* every later save.
C5_SizeNeverChanges ==
    [][\A m \in media : \A n \in media' :
          (m.id = n.id /\ m.file # NoFile /\ n.file # NoFile)
              => n.size_bytes = m.size_bytes]_vars

\* --- C6 -----------------------------------------------------------------
\* C6: the size_bytes stored by the first save of a Media row is the byte
\* length of the file attached at that save, whatever size_bytes the
\* instance carried, and no stored row lacks size_bytes.
C6_SizeIsFileLength ==
    /\ \A m \in media : m.size_bytes # None
    /\ (last.op = "CreateMedia" /\ last.res = "ok" /\ last.key[2] # NoFile) =>
          \E m \in media : m.id = seq.media /\ m.size_bytes = last.key[2]

\* --- C7 -----------------------------------------------------------------
\* C7: every Media row refers to one existing post or comment and to one
\* existing user as uploader.
C7_MediaReferencesExist ==
    \A m \in media :
        /\ \/ m.content_type = "post" /\ m.object_id \in Ids(posts)
           \/ m.content_type = "comment" /\ m.object_id \in Ids(comments)
        /\ m.uploader_content_type = "user"
        /\ m.uploader_object_id \in users

====
